---- MODULE Spec2Model ----
(***************************************************************************)
(* Model of the realtime voice-agent session controller of src/App.tsx     *)
(* (connectToGemini, its transport callbacks, disconnect) and of the       *)
(* retry decision of SystemMonitor.shouldRetry (src/services/n8nTemplate). *)
(*                                                                         *)
(* Every call of connectToGemini creates a closure: its own capture        *)
(* stream, processor, audio context, transport and isSessionActive flag.   *)
(* The model keeps one record per closure in the sequence `sess`, in       *)
(* creation order.  The React refs that name an object of a closure        *)
(* (audioStreamRef, processorRef, audioContextRef, activeSessionRef) are   *)
(* kept as a flag in the record of the closure they name.                  *)
(***************************************************************************)
EXTENDS Integers, Sequences, FiniteSets, TLC

\* ---------------------------------------------------------------- bounds
\* closures of connectToGemini that can be alive (not yet inert) at once
MaxSessions == 2
\* pending reconnect timers no longer referenced by reconnectTimeoutRef
MaxStray == 1
\* tool-call replies of one closure that wait for sessionReady or for I/O
MaxPending == 1
MaxFrames == 2

\* ------------------------------------------------------------- constants
RetryBudget == 3
BaseDelayMs == 1000

NoError == "null"
ReconnectingMsg(n) ==
  CASE n = 1 -> "Reconnecting (1)..."
    [] n = 2 -> "Reconnecting (2)..."
    [] n = 3 -> "Reconnecting (3)..."
    [] OTHER -> "Reconnecting (?)..."

\* error messages the transport can report (err.message)
ErrMsgs == {<<"Network error">>, <<"quota exceeded">>}

\* enum AppPhase
AppPhase ==
  {"WELCOME", "DETAILS", "DOCUMENTS", "VEHICLE_SELECTION",
   "PICKUP_INSPECTION", "CONTRACT_SIGNATURE", "CONTRACT_PREVIEW",
   "COMPLETED", "ADMIN_LOGIN", "ADMIN_DASHBOARD"}

\* the initial value of useState<ReservationData>
InitialReservation ==
  [documentsUploaded |-> FALSE, transcript |-> <<>>, driverName |-> "",
   email |-> "", phone |-> "", startDate |-> "", startTime |-> "10:00",
   endDate |-> "", endTime |-> "10:00", uploadedFiles |-> <<>>,
   secondaryDrivers |-> <<>>]

NoDoc == "null"

\* the fleet the closure sees: one seeded car, with no calendar attached
Fleet == <<[model |-> "Mitsubishi Space Star", category |-> "Económico",
            googleCalendarId |-> ""]>>

\* ---------------------------------------------------- tool calls (inputs)
NoArgs == <<>>
Call(id, name, args) ==
  [id |-> id, name |-> name, hasArgs |-> TRUE, args |-> args]
\* a function call that carries no `args` at all (FunctionCall.args is optional)
BareCall(id, name) ==
  [id |-> id, name |-> name, hasArgs |-> FALSE, args |-> NoArgs]

ToolBatches ==
  { <<Call(1, "navigateApp", [screen |-> "WELCOME"])>>,
    <<Call(1, "updateReservationDetails", [driverName |-> "Ana"]),
      Call(2, "bogusTool", NoArgs)>>,
    <<BareCall(1, "navigateApp"), Call(2, "logDamage", NoArgs)>>,
    <<Call(2, "checkAvailability",
           [startDate |-> "2024-03-14", endDate |-> "2024-03-16"])>> }

\* single calls, for the handlers taken one at a time
ToolCalls ==
  { Call(1, "updateReservationDetails",
         [driverName |-> "Ana", birthDate |-> "2000-03-15"]),
    Call(1, "updateReservationDetails",
         [birthDate |-> "2000-03-01",
          drivingLicenseIssueDate |-> "2020-03-15"]),
    Call(1, "updateReservationDetails", [addSecondaryDriverName |-> "Rui"]),
    Call(1, "updateReservationDetails",
         [addSecondaryDriverName |-> "rui",
          drivingLicenseIssueDate |-> "2025-01-01"]),
    Call(1, "logDamage",
         [part |-> "door", description |-> "scratch", severity |-> "low"]),
    Call(1, "navigateApp", [screen |-> "DOCUMENTS"]),
    Call(1, "navigateApp", [screen |-> "ADMIN_DASHBOARD"]),
    Call(1, "navigateApp", [screen |-> "GARAGE"]) }

\* the screens the user reaches with the wizard's own buttons
NavScreens == {"WELCOME", "DETAILS"}

\* ------------------------------------------------------------ variables
VARIABLES
  connected,            \* useState connected
  isMicActive,          \* useState isMicActive
  error,                \* useState error
  phase,                \* useState phase
  reservation,          \* useState reservation
  activeDocType,        \* useState activeDocType
  isDisconnectingRef,
  retryCountRef,
  reconnectTimeoutRef,  \* the pending timer the ref names, or NoTimer
  strayTimers,          \* pending timers the ref no longer names
  sess,                 \* one record per connectToGemini closure
  lastOp,               \* history: the handler that ran last
  delays,               \* history: delays scheduled since retryCount was 0
  quiet,                \* history: disconnect() called, no connect since
  systemMonitor,        \* the fields of the SystemMonitor singleton
  pendingHeals,         \* attemptHeal calls suspended at their await
  now,                  \* Date.now(), in steps of twelve hours
  monOp,                \* history: the last call into the monitor
  playback,             \* nextStartTime and the clock of one closure
  retryCall,            \* the last call of shouldRetry and its result
  codec                 \* samples given to createPcmBlob, and what became of them

appVars == <<phase, reservation, activeDocType>>
ctlVars == <<connected, isMicActive, error, isDisconnectingRef,
             retryCountRef, reconnectTimeoutRef, strayTimers, sess>>
sessVars == <<connected, isMicActive, error, phase, reservation,
              activeDocType, isDisconnectingRef, retryCountRef,
              reconnectTimeoutRef, strayTimers, sess, lastOp, delays, quiet>>
monVars == <<systemMonitor, pendingHeals, now, monOp>>
vars == <<connected, isMicActive, error, phase, reservation, activeDocType,
          isDisconnectingRef, retryCountRef, reconnectTimeoutRef,
          strayTimers, sess, lastOp, delays, quiet,
          systemMonitor, pendingHeals, now, monOp, playback, retryCall, codec>>

NoTimer == [st |-> "null", delay |-> 0, cphase |-> FALSE]

\* the closure of one connectToGemini call, as the call starts
NewSession(cph) ==
  [pc |-> "mic",            \* "mic": awaiting getUserMedia; "run"; "done"
   cphase |-> cph,           \* the closure's `phase` is WELCOME
   active |-> FALSE,         \* isSessionActive
   mic |-> "none",           \* the MediaStream: none, live, stopped
   proc |-> "none",          \* the ScriptProcessor: none, on, off
   ctx |-> "open",           \* the output AudioContext: open, closed
   transport |-> "none",     \* none, connecting, open, closed
   promise |-> "none",       \* sessionPromise: none, pending, resolved, rejected
   ready |-> FALSE,          \* sessionReady is resolved
   ended |-> FALSE,          \* disconnect() ran after the call started
   pend |-> <<>>,            \* replies computed and not yet sent (call ids)
   sref |-> FALSE,           \* audioStreamRef.current is this stream
   pref |-> FALSE,           \* processorRef.current is this processor
   cref |-> TRUE,            \* audioContextRef.current is this context
   aref |-> FALSE,           \* activeSessionRef.current is this session
   queued |-> <<>>,          \* frames whose send waits for sessionPromise
   sent |-> <<>>,            \* history: frames given to sendRealtimeInput
   captured |-> 0,           \* history: frames onaudioprocess was given
   lost |-> FALSE,           \* history: a frame was dropped while Open
   viaQueue |-> FALSE]       \* history: a frame was sent after waiting

\* the program state as one record, so that handlers are functions on it
Ctl ==
  [connected |-> connected, isMicActive |-> isMicActive, error |-> error,
   phase |-> phase, reservation |-> reservation,
   activeDocType |-> activeDocType,
   isDisconnectingRef |-> isDisconnectingRef,
   retryCountRef |-> retryCountRef,
   reconnectTimeoutRef |-> reconnectTimeoutRef,
   strayTimers |-> strayTimers, sess |-> sess]

\* --------------------------------------------------------- SystemMonitor
RECURSIVE Pow2(_)
Pow2(n) == IF n = 0 THEN 1 ELSE 2 * Pow2(n - 1)

\* A message is a sequence of pieces of text: a phrase the code looks for
\* is one piece, a digit is one piece.  String.includes: the pattern occurs
\* as a run of consecutive pieces.
includes(text, pat) ==
  \E i \in 0..(Len(text) - Len(pat)) : SubSeq(text, i + 1, i + Len(pat)) = pat

\* a test of the whole message against the patterns
isRetryable_exact(msg) ==
  msg \in {<<"Network error">>, <<"aborted">>, <<"5", "0", "3">>,
           <<"5", "0", "0">>, <<"fetch failed">>}

isRetryable(msg) ==
  \/ includes(msg, <<"Network error">>)
  \/ includes(msg, <<"aborted">>)
  \/ includes(msg, <<"5", "0", "3">>)
  \/ includes(msg, <<"5", "0", "0">>)
  \/ includes(msg, <<"fetch failed">>)

\* a decision that knows the retry budget
shouldRetry_capped(msg, attempt) ==
  IF isRetryable(msg) /\ attempt < RetryBudget
  THEN [retry |-> TRUE, delay |-> BaseDelayMs * Pow2(attempt)]
  ELSE [retry |-> FALSE, delay |-> 0]

\* the delay computed from the count after its increment
shouldRetry_late(msg, attempt) ==
  IF isRetryable(msg)
  THEN [retry |-> TRUE, delay |-> BaseDelayMs * Pow2(attempt + 1)]
  ELSE [retry |-> FALSE, delay |-> 0]

shouldRetry(msg, attempt) ==
  IF isRetryable(msg)
  THEN [retry |-> TRUE, delay |-> BaseDelayMs * Pow2(attempt)]
  ELSE [retry |-> FALSE, delay |-> 0]

\* ------------------------------------------------------------ disconnect
stopResources(ss) ==
  SubSeq([k \in 1..Len(ss) |->
           [ss[k] EXCEPT
              !.mic = IF ss[k].sref /\ @ = "live" THEN "stopped" ELSE @,
              !.proc = IF ss[k].pref /\ @ = "on" THEN "off" ELSE @,
              !.ctx = IF ss[k].cref /\ @ = "open" THEN "closed" ELSE @,
              !.aref = FALSE,
              !.ended = TRUE]], 1, Len(ss))

\* a teardown that flips the mic indicator instead of clearing it
disconnect_toggle(c, isRetrying) ==
  [c EXCEPT
     !.isDisconnectingRef = TRUE,
     !.reconnectTimeoutRef = IF ~isRetrying THEN NoTimer ELSE @,
     !.sess = stopResources(c.sess),
     !.connected = FALSE,
     !.isMicActive = ~@,
     !.error = IF ~isRetrying THEN NoError ELSE @]

\* a teardown that keeps the microphone stream when a reconnect follows
disconnect_keepMic(c, isRetrying) ==
  [c EXCEPT
     !.isDisconnectingRef = TRUE,
     !.reconnectTimeoutRef = IF ~isRetrying THEN NoTimer ELSE @,
     !.sess = IF isRetrying
              THEN SubSeq([k \in 1..Len(@) |->
                            [stopResources(c.sess)[k]
                               EXCEPT !.mic = c.sess[k].mic]], 1, Len(@))
              ELSE stopResources(c.sess),
     !.connected = FALSE,
     !.isMicActive = FALSE,
     !.error = IF ~isRetrying THEN NoError ELSE @]

disconnect(c, isRetrying) ==
  [c EXCEPT
     !.isDisconnectingRef = TRUE,
     !.reconnectTimeoutRef = IF ~isRetrying THEN NoTimer ELSE @,
     !.sess = stopResources(c.sess),
     !.connected = FALSE,
     !.isMicActive = FALSE,
     !.error = IF ~isRetrying THEN NoError ELSE @]

\* ------------------------------------------------------- connectToGemini
\* the synchronous part of connectToGemini up to `await getUserMedia`
connectToGemini(c, isRetry, cph) ==
  IF c.connected /\ ~isRetry THEN c
  ELSE LET c1 == IF ~isRetry
                 THEN [c EXCEPT !.error = NoError, !.retryCountRef = 0]
                 ELSE c
       IN [c1 EXCEPT
             !.isDisconnectingRef = FALSE,
             !.sess = Append([k \in 1..Len(@) |-> [@[k] EXCEPT !.cref = FALSE]],
                             NewSession(cph))]

\* getUserMedia resolved: the rest of the try block
afterGetUserMedia(c, s) ==
  [c EXCEPT
     !.sess = SubSeq([k \in 1..Len(@) |->
                       IF k = s
                       THEN [@[k] EXCEPT !.pc = "run", !.mic = "live",
                                         !.proc = "on",
                                         !.transport = "connecting",
                                         !.promise = "pending",
                                         !.sref = TRUE, !.pref = TRUE]
                       ELSE [@[k] EXCEPT !.sref = FALSE, !.pref = FALSE]],
                     1, Len(@))]

\* getUserMedia rejected: the catch block
catchSetup(c, s) ==
  disconnect([c EXCEPT !.error = "Audio error.", !.sess[s].pc = "done"],
             FALSE)

\* ------------------------------------------------------------- callbacks
\* an open callback that leaves the retry count as it finds it
onopen_keepCount(c, s) ==
  IF c.isDisconnectingRef THEN c
  ELSE [c EXCEPT !.sess[s].active = TRUE,
                 !.connected = TRUE,
                 !.isMicActive = TRUE,
                 !.error = NoError,
                 !.phase = IF c.sess[s].cphase THEN "DETAILS" ELSE @]

onopen(c, s) ==
  IF c.isDisconnectingRef THEN c
  ELSE [c EXCEPT
          !.sess[s].active = TRUE,
          !.connected = TRUE,
          !.isMicActive = TRUE,
          !.error = NoError,
          !.retryCountRef = 0,
          !.phase = IF c.sess[s].cphase THEN "DETAILS" ELSE @]

setTimeout(c, delay, cph) ==
  [c EXCEPT
     !.strayTimers = IF c.reconnectTimeoutRef.st = "pending"
                     THEN Append(@, [cphase |-> c.reconnectTimeoutRef.cphase])
                     ELSE @,
     !.reconnectTimeoutRef = [st |-> "pending", delay |-> delay,
                              cphase |-> cph]]

onerror(c, s, msg) ==
  IF c.isDisconnectingRef THEN c
  ELSE LET c1 == [c EXCEPT !.sess[s].active = FALSE]
           r == shouldRetry(msg, c1.retryCountRef)
       IN IF r.retry /\ c1.retryCountRef < RetryBudget
          THEN LET c2 == [c1 EXCEPT !.retryCountRef = @ + 1]
                   c3 == [c2 EXCEPT !.error = ReconnectingMsg(c2.retryCountRef)]
               IN setTimeout(disconnect(c3, TRUE), r.delay, c.sess[s].cphase)
          ELSE disconnect([c1 EXCEPT !.error = "Connection lost."], FALSE)

onclose(c, s) ==
  [c EXCEPT !.sess[s].active = FALSE, !.connected = FALSE]

\* sessionPromise.then
thenSession(c, s) ==
  IF c.isDisconnectingRef THEN c
  ELSE [c EXCEPT
          !.sess = SubSeq([k \in 1..Len(@) |->
                            IF k = s
                            THEN [@[k] EXCEPT !.aref = TRUE, !.ready = TRUE]
                            ELSE [@[k] EXCEPT !.aref = FALSE]], 1, Len(@))]

\* the callbacks onaudioprocess has chained to sessionPromise, run in the
\* order they were chained once the promise is resolved
flushFrames(c, s) ==
  IF c.sess[s].active /\ ~c.isDisconnectingRef
  THEN [c EXCEPT !.sess[s].sent = @ \o c.sess[s].queued,
                 !.sess[s].viaQueue = @ \/ c.sess[s].queued # <<>>,
                 !.sess[s].queued = <<>>]
  ELSE [c EXCEPT !.sess[s].queued = <<>>]

\* a capture handler that sends through the session once it is known and
\* otherwise lets the frame go
onaudioprocess_direct(c, s, frame) ==
  IF c.isDisconnectingRef \/ ~c.sess[s].active THEN c
  ELSE IF c.sess[s].ready
  THEN [c EXCEPT !.sess[s].sent = Append(@, frame)]
  ELSE c

\* processor.onaudioprocess: the send is chained to sessionPromise
onaudioprocess(c, s, frame) ==
  IF c.isDisconnectingRef \/ ~c.sess[s].active THEN c
  ELSE CASE c.sess[s].promise = "resolved" ->
              [c EXCEPT !.sess[s].sent = Append(@, frame)]
         [] c.sess[s].promise = "pending" ->
              [c EXCEPT !.sess[s].queued = Append(@, frame)]
         [] OTHER -> c

\* sessionPromise.catch
catchSession(c, s) ==
  IF c.isDisconnectingRef THEN c
  ELSE disconnect([c EXCEPT !.error = "Server error."], FALSE)

\* ------------------------------------------------- onmessage: tool calls
Has(fc, k) == fc.hasArgs /\ k \in DOMAIN fc.args
\* JavaScript truthiness of an optional string argument
Truthy(fc, k) == Has(fc, k) /\ fc.args[k] # ""

\* the handler reads a property of `args` before anything else
handlerThrows(fc) ==
  CASE fc.name = "checkAvailability" -> ~fc.hasArgs /\ Len(Fleet) > 0
    [] fc.name = "navigateApp" -> ~fc.hasArgs
    [] fc.name = "openDocumentCamera" -> ~fc.hasArgs
    [] OTHER -> FALSE

\* checkAvailability awaits the calendar only for a car that has one
awaitsCalendar(fc, authenticated) ==
  /\ fc.name = "checkAvailability"
  /\ authenticated
  /\ \E k \in 1..Len(Fleet) : Fleet[k].googleCalendarId # ""

docIdOf(fc) ==
  IF ~Has(fc, "driverType") THEN ""
  ELSE IF fc.args.driverType = "main"
  THEN (IF Has(fc, "docType") /\ fc.args.docType = "cc"
        THEN (IF Has(fc, "side") /\ fc.args.side = "front"
              THEN "cc_front" ELSE "cc_back")
        ELSE (IF Has(fc, "side") /\ fc.args.side = "front"
              THEN "dl_front" ELSE "dl_back"))
  ELSE IF fc.args.driverType = "secondary"
  THEN "sec_0_cc_front"
  ELSE ""

\* { ...prev, ...args }
mergeArgs(prev, args) ==
  [k \in (DOMAIN prev) \cup (DOMAIN args) |->
     IF k \in DOMAIN args THEN args[k] ELSE prev[k]]

Min(a, b) == IF a < b THEN a ELSE b
Max(a, b) == IF a > b THEN a ELSE b

\* ---- dates: a calendar date is [y, m, d]; the text of a date argument is
\* one of the keys of IsoDates
Date(y, m, d) == [y |-> y, m |-> m, d |-> d]

\* the date texts the tool calls carry, with the calendar date each names
IsoDates ==
  ("2000-03-15" :> Date(2000, 3, 15)) @@ ("2000-03-01" :> Date(2000, 3, 1))
  @@ ("2020-03-15" :> Date(2020, 3, 15)) @@ ("2025-01-01" :> Date(2025, 1, 1))

\* the environment of one handler run: `new Date()` in local time and the
\* zone's offset from UTC in hours
Todays == {Date(2024, 3, 14), Date(2024, 3, 16)}
UtcOffsets == {-1, 0, 1}
Envs == [today : Todays, utcOffset : UtcOffsets]
\* the environment of the batches of ToolBatches, none of which carries a date
BatchEnvs == {[today |-> Date(2024, 3, 14), utcOffset |-> -1]}

isLeap(y) == (y % 4 = 0 /\ y % 100 # 0) \/ y % 400 = 0
daysIn(y, m) ==
  IF m = 2 THEN (IF isLeap(y) THEN 29 ELSE 28)
  ELSE IF m \in {4, 6, 9, 11} THEN 30 ELSE 31
dayBefore(t) ==
  IF t.d > 1 THEN Date(t.y, t.m, t.d - 1)
  ELSE IF t.m > 1 THEN Date(t.y, t.m - 1, daysIn(t.y, t.m - 1))
  ELSE Date(t.y - 1, 12, 31)

\* new Date("YYYY-MM-DD") is midnight UTC of that day; getFullYear, getMonth
\* and getDate then read it in local time, which west of UTC is the day before
localDate(text, env) ==
  IF env.utcOffset < 0 THEN dayBefore(IsoDates[text]) ELSE IsoDates[text]

\* the year difference, less one while the month and day are not reached
yearsSince(from, today) ==
  LET m == today.m - from.m IN
  IF m < 0 \/ (m = 0 /\ today.d < from.d)
  THEN today.y - from.y - 1 ELSE today.y - from.y

\* String.prototype.toLowerCase on the driver names the calls carry
toLowerCase(name) == IF name = "Rui" THEN "rui" ELSE name

\* newState.key = value
setKey(r, key, value) ==
  [k \in (DOMAIN r) \cup {key} |-> IF k = key THEN value ELSE r[k]]

\* prev.damageReport || []
damageReportOf(r) ==
  IF "damageReport" \in DOMAIN r THEN r.damageReport ELSE <<>>

\* the updater given to setReservation; the id of a new secondary driver is
\* the clock reading Date.now()
updateReservation(prev, fc, env) ==
  IF ~fc.hasArgs THEN prev
  ELSE
    LET s0 == mergeArgs(prev, fc.args)
        s1 == IF Truthy(fc, "addSecondaryDriverName")
                   /\ ~\E i \in 1..Len(prev.secondaryDrivers) :
                        toLowerCase(prev.secondaryDrivers[i].name)
                          = toLowerCase(fc.args.addSecondaryDriverName)
              THEN setKey(s0, "secondaryDrivers",
                          Append(prev.secondaryDrivers,
                                 [id |-> env.today,
                                  name |-> fc.args.addSecondaryDriverName]))
              ELSE s0
        s2 == IF Truthy(fc, "birthDate")
              THEN setKey(s1, "driverAge",
                          yearsSince(localDate(fc.args.birthDate, env),
                                     env.today))
              ELSE s1
    IN IF Truthy(fc, "drivingLicenseIssueDate")
       THEN setKey(s2, "drivingLicenseYears",
                   Max(0, yearsSince(localDate(fc.args.drivingLicenseIssueDate,
                                               env), env.today)))
       ELSE s2

\* the state changes one call of the handler chain makes
handle(c, fc, env) ==
  IF handlerThrows(fc) THEN c
  ELSE CASE fc.name = "navigateApp" ->
              IF Truthy(fc, "screen") /\ fc.args.screen \in AppPhase
              THEN [c EXCEPT !.phase = fc.args.screen] ELSE c
         [] fc.name = "openDocumentCamera" ->
              IF docIdOf(fc) # ""
              THEN [c EXCEPT !.activeDocType = docIdOf(fc)] ELSE c
         [] fc.name = "updateReservationDetails" ->
              [c EXCEPT !.reservation = updateReservation(@, fc, env)]
         [] OTHER -> c

RECURSIVE handleAll(_, _, _)
handleAll(c, calls, env) ==
  IF calls = <<>> THEN c
  ELSE handleAll(handle(c, Head(calls), env), Tail(calls), env)

\* the `result` text of the response to one call; a call no branch of the
\* chain names keeps the initial { result: "Success" }
resultOf(fc) ==
  CASE fc.name = "checkAvailability" ->
         IF Len(Fleet) > 0 THEN "Disponíveis" ELSE "Nenhuma viatura disponível."
    [] fc.name = "navigateApp" ->
         IF Truthy(fc, "screen") /\ fc.args.screen \in AppPhase
         THEN "Navigated" ELSE "Invalid screen"
    [] fc.name = "openDocumentCamera" ->
         IF docIdOf(fc) # "" THEN "Camera opened" ELSE "Invalid document params"
    [] fc.name = "updateReservationDetails" -> "Updated"
    [] OTHER -> "Success"

responses(calls) == [k \in 1..Len(calls) |-> resultOf(calls[k])]

\* the ids of the responses Promise.all yields, in the order of the calls
responseIds(calls) == [k \in 1..Len(calls) |-> calls[k].id]

\* Promise.all rejects as soon as one handler has thrown
allRejects(calls) == \E k \in 1..Len(calls) : handlerThrows(calls[k])

\* what becomes of the reply: sent, dropped by the guard, or not yet due
replyNow(c, s, calls, io) ==
  IF c.isDisconnectingRef THEN "ignored"
  ELSE IF allRejects(calls) THEN "none"
  ELSE IF io \/ ~c.sess[s].ready THEN "pending"
  ELSE IF c.sess[s].active THEN "sent"
  ELSE "dropped"

\* a dispatcher that hands the failure of a handler to onerror
onmessageToolCall_escalate(c, s, calls, io, env) ==
  IF c.isDisconnectingRef THEN c
  ELSE LET c1 == handleAll(c, calls, env) IN
       IF allRejects(calls) THEN onerror(c1, s, <<"Network error">>)
       ELSE IF replyNow(c, s, calls, io) = "pending"
       THEN [c1 EXCEPT !.sess[s].pend = Append(@, responseIds(calls))]
       ELSE c1

onmessageToolCall(c, s, calls, io, env) ==
  IF c.isDisconnectingRef THEN c
  ELSE LET c1 == handleAll(c, calls, env) IN
       IF replyNow(c, s, calls, io) = "pending"
       THEN [c1 EXCEPT !.sess[s].pend = Append(@, responseIds(calls))]
       ELSE c1

\* the continuation after `await sessionReady`
sendToolResponse(c, s) ==
  [c EXCEPT !.sess[s].pend = Tail(@)]

\* onmessage, an audio part: the buffer is started on the closure's own
\* audio context, and is heard if that context is still open
audioPlayed(c, s) == ~c.isDisconnectingRef /\ c.sess[s].ctx = "open"

\* ------------------------------------------------- closures that are over
\* A closure is inert once nothing can call into it any more and it holds
\* no resource; its record is then dropped, and a ref that named one of its
\* objects counts as naming nothing (disconnect() acts on neither).
Inert(r) ==
  /\ r.pc \in {"run", "done"}
  /\ r.transport \in {"none", "closed"}
  /\ r.mic # "live"
  /\ r.proc # "on"
  /\ r.ctx # "open"
  /\ r.pend = <<>> \/ ~r.ready

Alive(r) == ~Inert(r)

Norm(c) == [c EXCEPT !.sess = SelectSeq(@, Alive)]

Apply(c0) ==
  LET c == Norm(c0) IN
  /\ connected' = c.connected
  /\ isMicActive' = c.isMicActive
  /\ error' = c.error
  /\ phase' = c.phase
  /\ reservation' = c.reservation
  /\ activeDocType' = c.activeDocType
  /\ isDisconnectingRef' = c.isDisconnectingRef
  /\ retryCountRef' = c.retryCountRef
  /\ reconnectTimeoutRef' = c.reconnectTimeoutRef
  /\ strayTimers' = c.strayTimers
  /\ sess' = c.sess

\* history of the backoff delays: reset whenever retryCountRef is reset
Delays(c) ==
  IF c.retryCountRef = 0 THEN <<>>
  ELSE IF c.retryCountRef > retryCountRef
       THEN Append(delays, c.reconnectTimeoutRef.delay)
       ELSE delays

\* what the last handler was and, for onmessage, what it was given and sent
Op(name) == [op |-> name, calls |-> <<>>, names |-> <<>>, resp |-> <<>>,
             results |-> <<>>, out |-> "",
             live |-> FALSE, stale |-> FALSE, fx |-> FALSE,
             held |-> FALSE]

Hist(c, op, q) ==
  /\ lastOp' = op
  /\ delays' = Delays(c)
  /\ quiet' = q
  /\ UNCHANGED <<monVars, playback, retryCall, codec>>

\* ======================================================= SystemMonitor
MaxLogged == 4
MaxNow == 3
StoredErrors == 45
MAX_LOGS == 100
\* 24 * 60 * 60 * 1000 ms, in steps of twelve hours
Window == 2
ErrorWeight == 2
ModuleWeight == 15
CriticalAbove == 3

ModuleNames ==
  {"AI_CORE", "AUDIO_SUBSYSTEM", "NETWORK", "DATABASE", "USER_INTERFACE"}
isModuleName(val) == val \in ModuleNames


initializeModules ==
  [m \in ModuleNames |-> [status |-> "healthy", errorCount |-> 0]]

recentErrors(m, t) ==
  Cardinality({i \in 1..Len(m.logs) :
                 /\ m.logs[i].level \in {"error", "fatal"}
                 /\ t - m.logs[i].timestamp < Window})

unhealthyModules(m) ==
  Cardinality({n \in ModuleNames : m.modules[n].status # "healthy"})

\* a score left as the subtraction gives it
calculateStabilityScore_raw(m, t) ==
  [m EXCEPT !.stabilityScore =
     100 - recentErrors(m, t) * ErrorWeight - unhealthyModules(m) * ModuleWeight]

calculateStabilityScore(m, t) ==
  LET score == 100 - recentErrors(m, t) * ErrorWeight
                   - unhealthyModules(m) * ModuleWeight
  IN [m EXCEPT !.stabilityScore = Max(0, Min(100, score))]

recordLearning(m, metric, value) ==
  IF \E i \in 1..Len(m.learnedAdaptations) :
       m.learnedAdaptations[i].metric = metric
  THEN [m EXCEPT !.learnedAdaptations =
          [i \in 1..Len(@) |->
             IF @[i].metric = metric
                  /\ \A j \in 1..(i - 1) : @[j].metric # metric
             THEN [@[i] EXCEPT !.value = @ + value] ELSE @[i]]]
  ELSE [m EXCEPT !.learnedAdaptations =
          Append(@, [metric |-> metric, value |-> value])]

\* the strategy of attemptHeal that waits before it reports
healAwaits(module) == module = "AUDIO_SUBSYSTEM"
healSucceeds(module) ==
  module \in {"AUDIO_SUBSYSTEM", "NETWORK", "DATABASE", "AI_CORE"}

\* attemptHeal from the push of the HealingAction to its end
finishHeal(m, module, t) ==
  LET m1 == [m EXCEPT !.healingHistory =
               Append(@, [module |-> module, timestamp |-> t,
                          success |-> healSucceeds(module)])]
  IN IF healSucceeds(module)
     THEN [m1 EXCEPT !.modules[module] =
             [status |-> "healthy", errorCount |-> 0]]
     ELSE [m1 EXCEPT !.modules[module].status = "critical"]

\* attemptHeal up to its first await, or to its end if it awaits nothing
attemptHeal(m, module, t) ==
  IF m.modules[module].status = "healing" THEN m
  ELSE LET m1 == [m EXCEPT !.modules[module].status = "healing"] IN
       IF healAwaits(module) THEN m1
       ELSE finishHeal(IF module = "AI_CORE"
                       THEN recordLearning(m1, "ai_error_rate", 1) ELSE m1,
                       module, t)

\* whether this call of attemptHeal is left suspended at its await
healSuspends(m, module) ==
  m.modules[module].status # "healing" /\ healAwaits(module)

\* the module update of logEvent, before the heal it triggers
countError(m, component) ==
  LET n == m.modules[component].errorCount + 1 IN
    [m EXCEPT !.modules[component] =
       [status |-> IF n > CriticalAbove THEN "critical" ELSE "degraded",
        errorCount |-> n]]

logEvent(m, level, component, t) ==
  LET m1 == [m EXCEPT !.logs = Append(@, [level |-> level, timestamp |-> t])]
      m2 == IF isModuleName(component) /\ level \in {"error", "fatal"}
            THEN attemptHeal(countError(m1, component), component, t)
            ELSE m1
  IN calculateStabilityScore(m2, t)

\* the constructor: initializeModules, loadState, cleanupOldLogs
newSystemMonitor(stored, t) ==
  LET m == [logs |-> stored, stabilityScore |-> 100,
            modules |-> initializeModules, healingHistory |-> <<>>,
            learnedAdaptations |-> <<>>]
      m1 == calculateStabilityScore(m, t)
  IN IF Len(m1.logs) > MAX_LOGS
     THEN [m1 EXCEPT !.logs = SubSeq(@, Len(@) - MAX_LOGS + 1, Len(@))]
     ELSE m1

\* what localStorage may hold of earlier runs
StoredLogs ==
  { <<>>,
    [i \in 1..StoredErrors |-> [level |-> "error", timestamp |-> 1]],
    [i \in 1..2 |-> [level |-> "error", timestamp |-> 0]] }

\* the calls of logEvent the application makes, and one it does not count
LogInputs ==
  { <<"error", "NETWORK">>, <<"fatal", "AUDIO_SUBSYSTEM">>,
    <<"error", "AUDIO_SUBSYSTEM">>,
    <<"error", "AI_CORE">>, <<"error", "DATABASE">>,
    <<"error", "USER_INTERFACE">>, <<"warn", "NETWORK">>,
    <<"error", "GEMINI_SERVICE">> }

MonOp(name) == [op |-> name, level |-> "", component |-> "",
                was |-> [status |-> "", errorCount |-> 0],
                healing |-> FALSE, n |-> 0, base |-> <<>>, result |-> <<>>]

InitMonitor(stored) ==
  /\ now = 1
  /\ systemMonitor = newSystemMonitor(stored, 1)
  /\ pendingHeals = <<>>
  /\ monOp = MonOp("init")

NoPlayback == [nextStartTime |-> 0, currentTime |-> 0, started |-> <<>>]
\* nothing encoded yet
NoCodec == [stage |-> "none", samples |-> <<>>, pcm |-> <<>>, decoded |-> <<>>]

NoRetryCall == [called |-> FALSE, msg |-> <<>>, attempt |-> 0,
                result |-> [retry |-> FALSE, delay |-> 0]]

\* one call of logEvent, with the heal it may leave suspended
LogCall(in) ==
    /\ systemMonitor' = logEvent(systemMonitor, in[1], in[2], now)
    /\ pendingHeals' =
         IF isModuleName(in[2]) /\ in[1] \in {"error", "fatal"}
              /\ healSuspends(countError(systemMonitor, in[2]), in[2])
         THEN Append(pendingHeals, in[2]) ELSE pendingHeals
    /\ monOp' = [MonOp("log") EXCEPT
                   !.level = in[1], !.component = in[2],
                   !.was = IF isModuleName(in[2])
                           THEN systemMonitor.modules[in[2]]
                           ELSE [status |-> "", errorCount |-> 0],
                   !.healing = \E k \in 1..Len(pendingHeals) :
                                 pendingHeals[k] = in[2],
                   !.n = monOp.n + 1]
    /\ UNCHANGED <<now, sessVars, playback, retryCall, codec>>

LogEvent ==
  \E in \in LogInputs :
    /\ monOp.n < MaxLogged
    /\ LogCall(in)

\* errors of the modules that are healed, until the audit log is MaxHeals long
MaxHeals == 6
HealInputs ==
  { <<"error", "NETWORK">>, <<"error", "AUDIO_SUBSYSTEM">>,
    <<"error", "USER_INTERFACE">> }
LogHealable ==
  \E in \in HealInputs :
    /\ Len(systemMonitor.healingHistory) + Len(pendingHeals) < MaxHeals
    /\ LogCall(in)

\* the 500 ms of a suspended attemptHeal are over; the timers of equal
\* delay fire in the order they were set
HealResumes ==
  /\ pendingHeals # <<>>
  /\ systemMonitor' = finishHeal(systemMonitor, Head(pendingHeals), now)
  /\ pendingHeals' = Tail(pendingHeals)
  /\ monOp' = [MonOp("heal") EXCEPT !.component = Head(pendingHeals),
                                    !.n = monOp.n]
  /\ UNCHANGED <<now, sessVars, playback, retryCall, codec>>

\* twelve hours pass; no heal stays suspended that long
Tick ==
  /\ now < MaxNow
  /\ pendingHeals = <<>>
  /\ now' = now + 1
  /\ monOp' = [MonOp("tick") EXCEPT !.n = monOp.n]
  /\ UNCHANGED <<systemMonitor, pendingHeals, sessVars, playback, retryCall, codec>>

\* ------------------------------------------------------------------ Init
InitSession ==
  /\ connected = FALSE
  /\ isMicActive = FALSE
  /\ error = NoError
  /\ phase = "WELCOME"
  /\ reservation = InitialReservation
  /\ activeDocType = NoDoc
  /\ isDisconnectingRef = FALSE
  /\ retryCountRef = 0
  /\ reconnectTimeoutRef = NoTimer
  /\ strayTimers = <<>>
  /\ sess = <<>>
  /\ lastOp = Op("init")
  /\ delays = <<>>
  /\ quiet = FALSE

Init ==
  /\ InitSession
  /\ InitMonitor(<<>>)
  /\ playback = NoPlayback
  /\ retryCall = NoRetryCall
  /\ codec = NoCodec

\* the monitor as constructed over what localStorage holds
InitMon ==
  /\ InitSession
  /\ \E stored \in StoredLogs : InitMonitor(stored)
  /\ playback = NoPlayback
  /\ retryCall = NoRetryCall
  /\ codec = NoCodec

\* --------------------------------------------------------------- actions
Room == Len(sess) < MaxSessions
Live == 1..Len(sess)

\* a session is Open, or a connect not yet torn down is still Connecting
Busy ==
  \/ connected
  \/ \E s \in Live : /\ ~sess[s].ended
                      /\ (sess[s].pc = "mic" \/ sess[s].transport = "connecting")

\* the controller is Open on the session of closure s
OpenSession(s) ==
  connected /\ sess[s].transport = "open" /\ ~sess[s].ended

\* the "Iniciar Reserva" button, rendered on the WELCOME screen only
UserConnect ==
  /\ phase = "WELCOME"
  /\ Room
  /\ LET c == connectToGemini(Ctl, FALSE, TRUE) IN
       /\ Apply(c)
       /\ Hist(c, IF Busy THEN [Op("connect_busy") EXCEPT !.fx = Norm(c) # Ctl]
                  ELSE Op("other"),
               IF connected THEN quiet ELSE FALSE)

\* the retry button of the error notification: connectToGemini(true)
UserRetry ==
  /\ error # NoError
  /\ Room
  /\ LET c == connectToGemini(Ctl, TRUE, phase = "WELCOME") IN
       /\ Apply(c)
       /\ Hist(c, Op("other"), FALSE)

\* the dismiss button of the error notification
UserDismiss ==
  /\ error # NoError
  /\ LET c == [Ctl EXCEPT !.error = NoError] IN
       /\ Apply(c)
       /\ Hist(c, Op("other"), quiet)

\* the reconnect timer that reconnectTimeoutRef names fires
TimerFires ==
  /\ reconnectTimeoutRef.st = "pending"
  /\ Room
  /\ LET c0 == [Ctl EXCEPT !.reconnectTimeoutRef = NoTimer]
         c == connectToGemini(c0, TRUE, reconnectTimeoutRef.cphase)
     IN /\ Apply(c)
        /\ Hist(c, Op("other"), FALSE)

\* a reconnect timer that the ref no longer names fires
StrayTimerFires ==
  /\ Room
  /\ \E i \in 1..Len(strayTimers) :
       LET c0 == [Ctl EXCEPT !.strayTimers =
                     SubSeq(@, 1, i - 1) \o SubSeq(@, i + 1, Len(@))]
           c == connectToGemini(c0, TRUE, strayTimers[i].cphase)
       IN /\ Apply(c)
          /\ Hist(c, Op("other"), FALSE)

MicGranted ==
  \E s \in Live :
    /\ sess[s].pc = "mic"
    /\ LET c == afterGetUserMedia(Ctl, s) IN
         /\ Apply(c)
         /\ Hist(c, Op("other"), quiet)

MicDenied ==
  \E s \in Live :
    /\ sess[s].pc = "mic"
    /\ LET c == catchSetup(Ctl, s) IN
         /\ Apply(c)
         /\ Hist(c, [Op("setup_failed") EXCEPT !.out = "denied"], quiet)

TransportOpens ==
  \E s \in Live :
    /\ sess[s].transport = "connecting"
    /\ LET c == onopen([Ctl EXCEPT !.sess[s].transport = "open"], s) IN
         /\ Apply(c)
         /\ Hist(c, IF isDisconnectingRef THEN Op("other")
                    ELSE [Op("open") EXCEPT !.fx = retryCountRef > 0],
                 quiet)

SessionResolves ==
  \E s \in Live :
    /\ sess[s].transport = "open"
    /\ sess[s].promise = "pending"
    /\ LET c0 == flushFrames(
                   thenSession([Ctl EXCEPT !.sess[s].promise = "resolved"], s),
                   s)
           c == [c0 EXCEPT !.sess[s].lost =
                   @ \/ (OpenSession(s) /\ sess[s].queued # <<>>
                            /\ c0.sess[s].sent = sess[s].sent)]
       IN /\ Apply(c)
          /\ Hist(c, Op("other"), quiet)

SessionRejects ==
  \E s \in Live :
    /\ sess[s].transport = "connecting"
    /\ sess[s].promise = "pending"
    /\ LET c == catchSession([Ctl EXCEPT !.sess[s].promise = "rejected",
                                         !.sess[s].transport = "closed"], s)
       IN /\ Apply(c)
          /\ Hist(c, [Op("setup_failed") EXCEPT
                        !.out = "rejected",
                        !.held = c.sess[s].mic = "live"], quiet)

TransportError ==
  \E s \in Live, msg \in ErrMsgs :
    /\ sess[s].transport \in {"connecting", "open"}
    /\ reconnectTimeoutRef.st = "pending" => Len(strayTimers) < MaxStray
    /\ LET c == onerror(Ctl, s, msg) IN
         /\ Apply(c)
         /\ Hist(c, IF isDisconnectingRef THEN Op("other")
                    ELSE IF c.retryCountRef > retryCountRef THEN Op("error_retry")
                    ELSE IF isRetryable(msg) THEN Op("error_exhausted")
                    ELSE Op("error_fatal"),
                 quiet)

TransportCloses ==
  \E s \in Live :
    /\ sess[s].transport \in {"connecting", "open"}
    /\ LET c == onclose([Ctl EXCEPT !.sess[s].transport = "closed"], s) IN
         /\ Apply(c)
         /\ Hist(c, Op("other"), quiet)

\* a wizard button that calls setPhase
UserNavigates ==
  \E p \in NavScreens :
    /\ p # phase
    /\ LET c == [Ctl EXCEPT !.phase = p] IN
         /\ Apply(c)
         /\ Hist(c, Op("other"), quiet)

\* one call of a tool-call message, on a session that is open and ready
ToolCall ==
  \E fc \in ToolCalls, env \in Envs :
    /\ ~isDisconnectingRef
    /\ LET c == handle(Ctl, fc, env) IN
         /\ Apply(c)
         /\ Hist(c, [op |-> "tool", call |-> fc, env |-> env], quiet)

ToolCallMessage ==
  \E s \in Live, calls \in ToolBatches, io \in BOOLEAN, env \in BatchEnvs :
    /\ sess[s].transport = "open"
    /\ io => \E k \in 1..Len(calls) : awaitsCalendar(calls[k], TRUE)
    /\ replyNow(Ctl, s, calls, io) = "pending" => Len(sess[s].pend) < MaxPending
    /\ LET c == onmessageToolCall(Ctl, s, calls, io, env)
           out == replyNow(Ctl, s, calls, io)
       IN /\ Apply(c)
          /\ Hist(c, [op |-> "toolcall", calls |-> responseIds(calls),
                      names |-> [k \in 1..Len(calls) |-> calls[k].name],
                      resp |-> IF out = "sent" THEN responseIds(calls) ELSE <<>>,
                      results |-> IF out = "sent" THEN responses(calls) ELSE <<>>,
                      out |-> out,
                      live |-> ~isDisconnectingRef /\ sess[s].active
                                /\ sess[s].ready,
                      stale |-> sess[s].ended,
                      fx |-> <<c.phase, c.reservation, c.activeDocType>>
                              # <<phase, reservation, activeDocType>>],
                  quiet)

SendReply ==
  \E s \in Live :
    /\ sess[s].pend # <<>>
    /\ sess[s].ready
    /\ LET c == sendToolResponse(Ctl, s)
           ok == sess[s].active /\ ~isDisconnectingRef
       IN /\ Apply(c)
          /\ Hist(c, [op |-> "reply", calls |-> Head(sess[s].pend),
                      names |-> <<>>, results |-> <<>>,
                      resp |-> IF ok THEN Head(sess[s].pend) ELSE <<>>,
                      out |-> IF ok THEN "sent" ELSE "dropped",
                      live |-> ok, stale |-> sess[s].ended, fx |-> FALSE],
                  quiet)

AudioMessage ==
  \E s \in Live :
    /\ sess[s].transport = "open"
    /\ LET c == Ctl
           played == audioPlayed(Ctl, s)
       IN /\ Apply(c)
          /\ Hist(c, [op |-> "audio", calls |-> <<>>, resp |-> <<>>,
                      names |-> <<>>, results |-> <<>>,
                      out |-> IF played THEN "played" ELSE "ignored",
                      live |-> ~isDisconnectingRef /\ sess[s].active,
                      stale |-> sess[s].ended, fx |-> played],
                  quiet)

\* the processor delivers a block of samples to onaudioprocess
CaptureFrame ==
  \E s \in Live :
    /\ sess[s].proc = "on"
    /\ sess[s].captured < MaxFrames
    /\ LET frame == sess[s].captured + 1
           c0 == onaudioprocess([Ctl EXCEPT !.sess[s].captured = frame],
                                s, frame)
           kept == \E k \in 1..Len(c0.sess[s].sent \o c0.sess[s].queued) :
                     (c0.sess[s].sent \o c0.sess[s].queued)[k] = frame
           c == [c0 EXCEPT !.sess[s].lost = @ \/ (OpenSession(s) /\ ~kept)]
       IN /\ Apply(c)
          /\ Hist(c, Op("capture"), quiet)

\* the stop button, or the unmount of the component
Disconnect ==
  LET c == disconnect(Ctl, FALSE) IN
    /\ Apply(c)
    /\ Hist(c, Op("disconnect"), TRUE)

Next ==
  \/ UserConnect
  \/ UserRetry
  \/ UserDismiss
  \/ TimerFires
  \/ StrayTimerFires
  \/ MicGranted
  \/ MicDenied
  \/ TransportOpens
  \/ SessionResolves
  \/ SessionRejects
  \/ TransportError
  \/ TransportCloses
  \/ Disconnect
  \/ UserNavigates

Spec == Init /\ [][Next]_vars

\* the session with its messages, for a user who starts and stops it and a
\* transport that opens, delivers and closes
NextMsg ==
  \/ UserConnect
  \/ MicGranted
  \/ TransportOpens
  \/ SessionResolves
  \/ TransportCloses
  \/ Disconnect
  \/ ToolCallMessage
  \/ SendReply
  \/ AudioMessage

SpecMsg == Init /\ [][NextMsg]_vars

\* the session with its capture path
NextTool == ToolCall

SpecTool == Init /\ [][NextTool]_vars

NextCapture ==
  \/ UserConnect
  \/ MicGranted
  \/ TransportOpens
  \/ SessionResolves
  \/ TransportCloses
  \/ Disconnect
  \/ CaptureFrame

SpecCapture == Init /\ [][NextCapture]_vars

\* ------------------------------------------------- shouldRetry by itself
MaxMsgLen == 3
MaxAttempt == 4
Pieces == {"Network error", "aborted", "fetch failed", "quota exceeded",
           "5", "0", "3", "2"}
Messages == UNION {[1..n -> Pieces] : n \in 0..MaxMsgLen}

ShouldRetryCall ==
  \E msg \in Messages, attempt \in 0..MaxAttempt :
    /\ ~retryCall.called
    /\ retryCall' = [called |-> TRUE, msg |-> msg, attempt |-> attempt,
                     result |-> shouldRetry(msg, attempt)]
    /\ UNCHANGED <<sessVars, monVars, playback, codec>>

NextRetry == ShouldRetryCall

SpecRetry == Init /\ [][NextRetry]_vars

\* ------------------------------------------------ audioUtils: 16-bit PCM
\* A sample is the float n / SampleScale, held as its numerator n; these
\* floats and their products with 32767 are exact in the arithmetic of the
\* code. A decoded sample q / 32768 is held as q * (SampleScale / 32768).
MaxSamples == 2
SampleScale == 65536
Int16Scale == 32767
DecodeScale == 32768
SampleNumerators == {-65536, -49153, -1, 0, 1, 49153, 65536, 131072}
SampleArrays == UNION {[1..n -> SampleNumerators] : n \in 0..MaxSamples}

\* the integer part of a / b, as storing into an Int16Array takes it
trunc(a, b) == IF a >= 0 THEN a \div b ELSE -((-a) \div b)

\* storing a number into an Int16Array: truncated, then modulo 2^16
toInt16(a, b) == ((trunc(a, b) + 32768) % 65536) - 32768

\* the two bytes of an Int16Array element, low byte first, and back
bytesOf(q) == LET u == q % 65536 IN <<u % 256, u \div 256>>
int16Of(lo, hi) ==
  LET u == lo + 256 * hi IN IF u >= 32768 THEN u - 65536 ELSE u

\* createPcmBlob: the bytes of int16.buffer (the base64 text stands for the
\* bytes it carries)
createPcmBlob(data) ==
  [i \in 1..(2 * Len(data)) |->
     LET n == Max(-SampleScale, Min(SampleScale, data[(i + 1) \div 2]))
     IN bytesOf(toInt16(n * Int16Scale, SampleScale))[2 - (i % 2)]]

\* decodeAudioData with one channel: dataInt16[i] / 32768.0
decodeAudioData(bytes) ==
  [i \in 1..(Len(bytes) \div 2) |->
     int16Of(bytes[2 * i - 1], bytes[2 * i]) * (SampleScale \div DecodeScale)]

Encode ==
  \E data \in SampleArrays :
    /\ codec.stage = "none"
    /\ codec' = [codec EXCEPT !.stage = "encoded", !.samples = data,
                              !.pcm = createPcmBlob(data)]
    /\ UNCHANGED <<sessVars, monVars, playback, retryCall>>

Decode ==
  /\ codec.stage = "encoded"
  /\ codec' = [codec EXCEPT !.stage = "decoded",
                            !.decoded = decodeAudioData(codec.pcm)]
  /\ UNCHANGED <<sessVars, monVars, playback, retryCall>>

NextPcm ==
  \/ Encode
  \/ Decode

SpecPcm == Init /\ [][NextPcm]_vars

\* ---------------------------------------- onmessage, audio: the schedule
MaxBuffers == 3
MaxDuration == 2
MaxClock == 4

\* a buffer started at the clock reading, whatever is still playing
schedule_now(p, duration, later) ==
  [p EXCEPT !.started = Append(@, [start |-> p.currentTime,
                                   duration |-> duration]),
            !.nextStartTime = later + duration,
            !.currentTime = later]

\* src.start(...) and the update of nextStartTime; audioContext.currentTime
\* is read twice, and reads `later` the second time
schedule(p, duration, later) ==
  [p EXCEPT !.started = Append(@, [start |-> Max(p.currentTime, p.nextStartTime),
                                   duration |-> duration]),
            !.nextStartTime = Max(later, p.nextStartTime) + duration,
            !.currentTime = later]

\* an audio part arrives; decodeAudioData awaits nothing, so the messages
\* are scheduled in the order of their arrival
AudioArrives ==
  \E duration \in 1..MaxDuration, later \in {0, 1} :
    /\ Len(playback.started) < MaxBuffers
    /\ playback.currentTime + later <= MaxClock
    /\ playback' = schedule(playback, duration, playback.currentTime + later)
    /\ UNCHANGED <<sessVars, monVars, retryCall, codec>>

ClockAdvances ==
  /\ playback.currentTime < MaxClock
  /\ playback' = [playback EXCEPT !.currentTime = @ + 1]
  /\ UNCHANGED <<sessVars, monVars, retryCall, codec>>

NextAudio ==
  \/ AudioArrives
  \/ ClockAdvances

SpecAudio == Init /\ [][NextAudio]_vars

\* ------------------------------------------- getAdaptiveInstruction
\* an instruction is a sequence of pieces of text; the three modifiers are
\* the pieces SafeMode, PlainText and VerifyDates
MaxMetric == 3
SafeBelow == 70
DateCorrectionsAbove == 2
SafeMode == "[SYSTEM MODE: SAFE]"
PlainText == "[ADAPTATION] Avoid complex JSON structures."
VerifyDates == "[ADAPTATION] When asking for dates, explicitly ask for the YEAR."
Bases == {<<>>, <<"base">>, <<"base", SafeMode>>}
Metrics == {"ai_error_rate", "user_date_corrections"}

\* learnedAdaptations.find(l => l.metric === metric), as a sequence of at
\* most one record
findMetric(m, metric) ==
  LET at == {i \in 1..Len(m.learnedAdaptations) :
               m.learnedAdaptations[i].metric = metric}
  IN IF at = {} THEN <<>>
     ELSE <<m.learnedAdaptations[CHOOSE i \in at : \A j \in at : i <= j]>>

\* the modifiers appended most recent first
getAdaptiveInstruction_reversed(m, baseInstruction) ==
  LET aiErrors == findMetric(m, "ai_error_rate")
      dateCorrections == findMetric(m, "user_date_corrections")
  IN baseInstruction
     \o (IF dateCorrections # <<>>
              /\ dateCorrections[1].value > DateCorrectionsAbove
         THEN <<VerifyDates>> ELSE <<>>)
     \o (IF aiErrors # <<>> /\ aiErrors[1].value > 0
         THEN <<PlainText>> ELSE <<>>)
     \o (IF m.stabilityScore < SafeBelow THEN <<SafeMode>> ELSE <<>>)

getAdaptiveInstruction(m, baseInstruction) ==
  LET aiErrors == findMetric(m, "ai_error_rate")
      dateCorrections == findMetric(m, "user_date_corrections")
  IN baseInstruction
     \o (IF m.stabilityScore < SafeBelow THEN <<SafeMode>> ELSE <<>>)
     \o (IF aiErrors # <<>> /\ aiErrors[1].value > 0
         THEN <<PlainText>> ELSE <<>>)
     \o (IF dateCorrections # <<>>
              /\ dateCorrections[1].value > DateCorrectionsAbove
         THEN <<VerifyDates>> ELSE <<>>)

\* recordLearning called through the public API
RecordLearning ==
  \E metric \in Metrics, value \in {-1, 1} :
    /\ LET m == recordLearning(systemMonitor, metric, value) IN
         /\ findMetric(m, metric)[1].value \in (-1)..MaxMetric
         /\ systemMonitor' = m
    /\ monOp' = [MonOp("learn") EXCEPT !.n = monOp.n]
    /\ UNCHANGED <<pendingHeals, now, sessVars, playback, retryCall, codec>>

GetAdaptiveInstruction ==
  \E base \in Bases :
    /\ monOp' = [MonOp("instruction") EXCEPT
                   !.n = monOp.n, !.base = base,
                   !.result = getAdaptiveInstruction(systemMonitor, base)]
    /\ UNCHANGED <<systemMonitor, pendingHeals, now, sessVars, playback,
                   retryCall, codec>>

MaxAdaptHeals == 3
LogAdaptable ==
  \E in \in HealInputs :
    /\ Len(systemMonitor.healingHistory) + Len(pendingHeals) < MaxAdaptHeals
    /\ LogCall(in)

NextAdapt ==
  \/ LogAdaptable
  \/ HealResumes
  \/ RecordLearning
  \/ GetAdaptiveInstruction

SpecAdapt == Init /\ [][NextAdapt]_vars

NextHeal ==
  \/ LogHealable
  \/ HealResumes

SpecHeal == Init /\ [][NextHeal]_vars

NextMon ==
  \/ LogEvent
  \/ HealResumes
  \/ Tick

SpecMon == InitMon /\ [][NextMon]_vars

\* ================================================================ claims

\* the timers that would still call connectToGemini
NoTimerPending == reconnectTimeoutRef.st # "pending" /\ strayTimers = <<>>
MicHeld == \E s \in Live : sess[s].mic = "live"

\* C1: consecutive retryable errors schedule the reconnects with the delays
\* 1000, 2000, 4000 ms in that order, one per increment of retryCount, which
\* never exceeds 3; the retryable error that finds retryCount = 3 schedules
\* nothing and leaves the controller not connected, with no timer named by
\* reconnectTimeoutRef pending.
BackoffSchedule == <<1000, 2000, 4000>>
C2_FatalErrorShown ==
  lastOp.op \in {"error_fatal", "error_exhausted"} =>
    ~connected /\ error # NoError

\* C4: a connect() that is not a retry, called while a session is Open or
\* still Connecting, changes nothing.
C4_ConnectNoop ==
  lastOp.op = "connect_busy" => ~lastOp.fx

\* C6: once disconnect() was called and no connect() was started since, no
\* microphone stream is live.
C6_MicReleased == quiet => ~MicHeld

\* C7: once the user's disconnect() has returned and no connect() was started
\* since, no reconnect timer is pending (so none can call connect()).
C7_NoTimerAfterDisconnect == quiet => NoTimerPending

\* C8: after disconnect() has returned, no transport opened by the controller
\* is open.
C8_TransportClosed ==
  lastOp.op = "disconnect" => \A s \in Live : sess[s].transport # "open"

\* C9: disconnect() is idempotent: called again right after it has returned,
\* it leaves every variable of the controller as it is.
C9_Idempotent ==
  lastOp.op = "disconnect" => Norm(disconnect(Ctl, FALSE)) = Ctl
C9_Witness ==
  /\ lastOp.op = "disconnect"
  /\ \E s \in Live : sess[s].mic = "stopped" /\ sess[s].ctx = "closed"

\* C10 as stated: after a retryable error has scheduled a reconnect, the
\* transport of the session is torn down and the microphone stream the
\* controller holds is still live.
C10_MicKept ==
  lastOp.op = "error_retry" =>
    /\ \A s \in Live : sess[s].sref => sess[s].mic = "live"
    /\ \A s \in Live : sess[s].ended => sess[s].transport # "open"

\* C10 amended: after a retryable error has scheduled a reconnect, the
\* teardown has stopped the microphone stream audioStreamRef names and
\* cleared connected and isMicActive, and has kept the reconnect timer
\* pending and the Reconnecting message.
C10_MicStoppedOnRetry ==
  lastOp.op = "error_retry" =>
    /\ \A s \in Live : sess[s].sref => sess[s].mic = "stopped"
    /\ ~connected /\ ~isMicActive
    /\ reconnectTimeoutRef.st = "pending"
    /\ error = ReconnectingMsg(retryCountRef)
C10_Witness ==
  /\ lastOp.op = "error_retry"
  /\ \E s \in Live : sess[s].sref /\ sess[s].mic = "stopped"
                      /\ sess[s].transport = "open"

\* C3: a tool-call message handled by an open session is answered by one
\* reply whose response ids are exactly the ids of its calls.
IdsMatch(a, b) ==
  /\ Len(a) = Len(b)
  /\ \A x \in {a[i] : i \in 1..Len(a)} \cup {b[i] : i \in 1..Len(b)} :
        Cardinality({i \in 1..Len(a) : a[i] = x})
          = Cardinality({i \in 1..Len(b) : b[i] = x})
C3_ReplyComplete ==
  (lastOp.op \in {"toolcall", "reply"} /\ lastOp.live /\ lastOp.out # "pending")
    => lastOp.out = "sent" /\ IdsMatch(lastOp.resp, lastOp.calls)

\* C5: a message delivered by a session that was replaced or ended changes
\* neither the phase, the reservation, the camera state nor what is played.
C5_StaleMessageInert ==
  (lastOp.op \in {"toolcall", "audio"} /\ lastOp.stale) => ~lastOp.fx

DeclaredTools ==
  {"checkAvailability", "navigateApp", "openDocumentCamera",
   "updateReservationDetails", "logDamage"}
C12_UnknownToolError ==
  /\ (lastOp.op = "toolcall" /\ lastOp.out = "sent") =>
        \A k \in 1..Len(lastOp.names) :
          lastOp.names[k] \notin DeclaredTools => lastOp.results[k] # "Success"
  /\ \A b \in ToolBatches : \A k \in 1..Len(b) :
        b[k].name \notin DeclaredTools =>
          \A env \in Envs : handle(Ctl, b[k], env) = Ctl

\* C13: an open callback that takes effect leaves the controller connected
\* with the mic flag set, no error shown and retryCount 0.
C13_OpenResetsRetry ==
  lastOp.op = "open" =>
    /\ connected /\ isMicActive /\ error = NoError
    /\ retryCountRef = 0
    /\ \E s \in Live : sess[s].active /\ sess[s].transport = "open"
C13_Witness ==
  /\ lastOp.op = "open" /\ lastOp.fx
  /\ connected /\ retryCountRef = 0

\* C14: an error logged for a module that was healthy with errorCount 0, or
\* degraded, leaves the module with one more error counted, degraded while
\* the count is at most 3 and critical once it is 4.
C14_HealthByCount ==
  (/\ monOp.op = "log"
   /\ monOp.level \in {"error", "fatal"}
   /\ isModuleName(monOp.component)
   /\ monOp.was.status \in {"healthy", "degraded"}
   /\ monOp.was.status = "healthy" => monOp.was.errorCount = 0)
    => systemMonitor.modules[monOp.component] =
         [status |-> IF monOp.was.errorCount + 1 > 3 THEN "critical"
                     ELSE "degraded",
          errorCount |-> monOp.was.errorCount + 1]

\* C15: no module has two heals in progress at once.
C15_OneHealPerModule ==
  \A m \in ModuleNames :
    Cardinality({k \in 1..Len(pendingHeals) : pendingHeals[k] = m}) <= 1

\* C16: when logEvent has returned, stabilityScore is 100 less 2 for each
\* error or fatal log of the last 24 hours less 15 for each module that is
\* not healthy, brought into 0..100; it is in 0..100 in every state.
C16_ScoreFormula ==
  LET recent == Cardinality({i \in 1..Len(systemMonitor.logs) :
                   /\ systemMonitor.logs[i].level \in {"error", "fatal"}
                   /\ now - systemMonitor.logs[i].timestamp < 2})
      unhealthy == Cardinality({m \in ModuleNames :
                      systemMonitor.modules[m].status # "healthy"})
      raw == 100 - 2 * recent - 15 * unhealthy
  IN /\ systemMonitor.stabilityScore \in 0..100
     /\ monOp.op = "log" =>
          systemMonitor.stabilityScore =
            (IF raw < 0 THEN 0 ELSE IF raw > 100 THEN 100 ELSE raw)
C16_Witness ==
  /\ monOp.op = "log"
  /\ systemMonitor.stabilityScore = 0
  /\ unhealthyModules(systemMonitor) > 0
  /\ 100 - 2 * recentErrors(systemMonitor, now)
         - 15 * unhealthyModules(systemMonitor) < 0

\* C17 as stated: shouldRetry on a retryable message with attempt 3 returns
\* retry = false.
C17_StopsAtThree ==
  (retryCall.called /\ isRetryable(retryCall.msg) /\ retryCall.attempt = 3)
    => ~retryCall.result.retry

\* C17 amended: shouldRetry on a retryable message with attempt 3 returns
\* retry = true with a delay of 8000 ms.
C17_RetriesAtThree ==
  (retryCall.called /\ isRetryable(retryCall.msg) /\ retryCall.attempt = 3)
    => retryCall.result = [retry |-> TRUE, delay |-> 8000]
C17_Witness ==
  /\ retryCall.called /\ retryCall.attempt = 3
  /\ retryCall.msg = <<"Network error">>
  /\ retryCall.result.retry

\* C18: shouldRetry returns retry = true with delay 1000 * 2^attempt exactly
\* when the message contains "Network error", "aborted", "503", "500" or
\* "fetch failed", and retry = false with delay 0 for every other message.
C18_RetryablePatterns ==
  retryCall.called =>
    LET msg == retryCall.msg
        match == \E pat \in {<<"Network error">>, <<"aborted">>,
                              <<"5", "0", "3">>, <<"5", "0", "0">>,
                              <<"fetch failed">>} :
                   \E i \in 1..Len(msg) :
                     /\ i + Len(pat) - 1 <= Len(msg)
                     /\ \A j \in 1..Len(pat) : msg[i + j - 1] = pat[j]
    IN retryCall.result =
         IF match THEN [retry |-> TRUE, delay |-> 1000 * 2^retryCall.attempt]
         ELSE [retry |-> FALSE, delay |-> 0]
C18_Witness ==
  /\ retryCall.called
  /\ retryCall.msg = <<"quota exceeded", "5", "0">>
  /\ ~retryCall.result.retry

\* C19: each buffer of a session starts no earlier than the buffer before
\* it has ended: start times never decrease and no two buffers overlap.
C19_NoOverlap ==
  \A i \in 1..(Len(playback.started) - 1) :
    playback.started[i + 1].start
      >= playback.started[i].start + playback.started[i].duration
C19_Witness ==
  /\ Len(playback.started) = 3
  /\ playback.started[2].start
       > playback.started[1].start + playback.started[1].duration
  /\ playback.started[3].start
       = playback.started[2].start + playback.started[2].duration
  /\ playback.started[3].start > playback.currentTime

\* C20: no frame captured while the controller is Open on its session is
\* dropped, and the frames sent and waiting to be sent are in capture
\* order, each at most once.
C20_FramesInOrder ==
  \A s \in Live :
    LET q == sess[s].sent \o sess[s].queued IN
      /\ ~sess[s].lost
      /\ \A i \in 1..(Len(q) - 1) : q[i] < q[i + 1]
C20_Witness ==
  \E s \in Live :
    /\ sess[s].sent = <<1, 2>>
    /\ sess[s].viaQueue
    /\ OpenSession(s)

\* the keys of interface ReservationData
ReservationFields ==
  {"id", "status", "startDate", "startTime", "endDate", "returnDate",
   "endTime", "pickupLocation", "returnLocation", "hotelAddress", "hotelName",
   "hotelPhone", "hotelDirectionsLink", "flightNumber", "driverName", "email",
   "phone", "birthDate", "driverAge", "drivingLicenseIssueDate",
   "drivingLicenseYears", "nif", "ccNumber", "ccExpiry",
   "drivingLicenseNumber", "dlExpiry", "mainDriverDocExpiry", "ccFrontImage",
   "ccBackImage", "dlFrontImage", "dlBackImage", "secondaryDrivers",
   "selectedCar", "licensePlate", "selectedInsurance", "babySeat",
   "cleaningOption", "outOfHoursFee", "referralSource",
   "returnEmployeeAgreement", "documentsUploaded", "uploadedFiles", "odometer",
   "fuelLevel", "signature", "damageReport", "damagePhotos", "n8nSyncStatus",
   "googleCalendarEventId", "feedbackRating", "clientSuggestions",
   "transcript"}

\* the keys an updateReservationDetails call may write: the reservation
\* fields among its arguments, the derived fields of the dates it supplies,
\* and the secondary-driver list when it names a driver to add
MayWrite(fc) ==
  ((DOMAIN fc.args) \cap ReservationFields)
  \cup (IF Has(fc, "birthDate") THEN {"driverAge"} ELSE {})
  \cup (IF Has(fc, "drivingLicenseIssueDate")
        THEN {"drivingLicenseYears"} ELSE {})
  \cup (IF Has(fc, "addSecondaryDriverName")
        THEN {"secondaryDrivers"} ELSE {})

\* C21: an updateReservationDetails call changes only the reservation fields
\* present in its arguments (with the derived age and licence years and the
\* secondary-driver list when their inputs are supplied), adds no other key
\* to the reservation, and leaves every other field at its previous value.
C21_OnlyProvidedFields ==
  [][(lastOp'.op = "tool" /\ lastOp'.call.name = "updateReservationDetails")
       => /\ DOMAIN reservation' \subseteq
               (DOMAIN reservation) \cup MayWrite(lastOp'.call)
          /\ \A k \in (DOMAIN reservation) \ MayWrite(lastOp'.call) :
               /\ k \in DOMAIN reservation'
               /\ reservation'[k] = reservation[k]]_vars

\* the whole years from the date a text names to today
WholeYears(text, today) == yearsSince(IsoDates[text], today)

\* C22: the derived age is the whole number of years from the birth date to
\* today (birth 2000-03-15 gives 23 on 2024-03-14 and 24 on 2024-03-16), and
\* the licence years follow the same rule from the issue date.
C22_WholeYears ==
  (lastOp.op = "tool" /\ lastOp.call.name = "updateReservationDetails") =>
     /\ Has(lastOp.call, "birthDate") =>
          reservation.driverAge
            = WholeYears(lastOp.call.args.birthDate, lastOp.env.today)
     /\ Has(lastOp.call, "drivingLicenseIssueDate") =>
          reservation.drivingLicenseYears
            = WholeYears(lastOp.call.args.drivingLicenseIssueDate,
                         lastOp.env.today)

\* C23: for samples in [-1, 1], decoding the 16-bit PCM encoding gives as
\* many samples in the same order, each within one quantization step
\* (1/32768) of the sample it came from.
C23_RoundTrip ==
  codec.stage = "decoded" =>
    /\ Len(codec.decoded) = Len(codec.samples)
    /\ \A i \in 1..Len(codec.samples) :
         LET n == codec.samples[i]
             d == codec.decoded[i] - n
         IN (-SampleScale <= n /\ n <= SampleScale) =>
              (IF d >= 0 THEN d ELSE -d) <= SampleScale \div DecodeScale

\* the number of heals the health report retains: healingHistory.slice(-5)
RecentHeals == 5

\* h2 is h1 less some of its oldest records, followed by new ones
Retained(h1, h2) ==
  \E k \in 0..Len(h1) :
    /\ Len(h2) >= Len(h1) - k
    /\ SubSeq(h2, 1, Len(h1) - k) = SubSeq(h1, k + 1, Len(h1))

\* C24: the healing audit log is append-only and bounded: every step leaves
\* the records it keeps unmodified and in order, and the log never holds
\* more than the retained number of records.
C24_AuditBounded ==
  [][/\ Retained(systemMonitor.healingHistory, systemMonitor'.healingHistory)
     /\ Len(systemMonitor'.healingHistory) <= RecentHeals]_vars

\* C25: a failure of the setup inside connect (permission denied, or the
\* connection rejected) schedules no reconnect timer, does not increment
\* retryCount, and leaves the microphone stream of the attempt released.
C25_SetupFailureFatal ==
  [][lastOp'.op = "setup_failed" =>
       /\ reconnectTimeoutRef' \in {reconnectTimeoutRef, NoTimer}
       /\ strayTimers' = strayTimers
       /\ retryCountRef' <= retryCountRef
       /\ ~lastOp'.held]_vars

\* C26: a logDamage call that carries a part and a description records the
\* damage: afterwards the reservation's damage report holds one more entry.
C26_DamageLogged ==
  [][(/\ lastOp'.op = "tool"
      /\ lastOp'.call.name = "logDamage"
      /\ Truthy(lastOp'.call, "part")
      /\ Truthy(lastOp'.call, "description"))
       => Len(damageReportOf(reservation'))
            = Len(damageReportOf(reservation)) + 1]_vars

\* the screens navigateTool declares for its `screen` argument
WizardScreens ==
  {"DETAILS", "DOCUMENTS", "VEHICLE_SELECTION", "PICKUP_INSPECTION",
   "CONTRACT_SIGNATURE", "CONTRACT_PREVIEW"}

\* C28: after a navigateApp call the phase is unchanged or one of the six
\* wizard screens the tool declares; it is never moved to ADMIN_DASHBOARD,
\* ADMIN_LOGIN, WELCOME or COMPLETED.
C28_NavigatesToWizardOnly ==
  [][(lastOp'.op = "tool" /\ lastOp'.call.name = "navigateApp")
       => (phase' = phase \/ phase' \in WizardScreens)]_vars

\* the value of a learned metric, 0 when it was never recorded
MetricValue(metric) ==
  LET found == findMetric(systemMonitor, metric) IN
  IF found = <<>> THEN 0 ELSE found[1].value

\* whether the condition of a modifier holds
ModifierDue(modifier) ==
  CASE modifier = SafeMode -> systemMonitor.stabilityScore < 70
    [] modifier = PlainText -> MetricValue("ai_error_rate") > 0
    [] modifier = VerifyDates -> MetricValue("user_date_corrections") > 2

\* C27: getAdaptiveInstruction(base) returns base, unchanged, followed by
\* the modifiers whose condition holds and no others, in the order
\* terseness, structural simplicity, date verification.
C27_AdaptiveInstruction ==
  monOp.op = "instruction" =>
    /\ Len(monOp.result) >= Len(monOp.base)
    /\ SubSeq(monOp.result, 1, Len(monOp.base)) = monOp.base
    /\ SubSeq(monOp.result, Len(monOp.base) + 1, Len(monOp.result))
         = SelectSeq(<<SafeMode, PlainText, VerifyDates>>, ModifierDue)
C27_Witness ==
  /\ monOp.op = "instruction"
  /\ monOp.base = <<"base", SafeMode>>
  /\ Len(monOp.result) = 5

\* a connect or reconnect is under way: its permission request or its
\* transport connection has not completed
Connecting ==
  \E s \in Live : sess[s].pc = "mic" \/ sess[s].transport = "connecting"

\* C29: whenever the controller is not connected and no reconnect is pending
\* or in progress, also after the transport closed on its own, no microphone
\* stream is live and the mic-active flag is false.
C29_IdleMicOff ==
  (~connected /\ NoTimerPending /\ ~Connecting)
    => (~MicHeld /\ ~isMicActive)

\* C30: in every state where no heal is in progress, stabilityScore is the
\* score formula applied to the current module statuses and recent errors:
\* the end of an asynchronous heal shows in the score at once.
C30_ScoreCurrent ==
  pendingHeals = <<>> =>
    systemMonitor.stabilityScore
      = calculateStabilityScore(systemMonitor, now).stabilityScore
====
